---------------------------- MODULE Spec2Model ----------------------------
(***************************************************************************)
(* The ledger's in-memory storage (shell/storage/mod.rs): the Storage      *)
(* struct, its balance map and sparse Merkle tree, and the operations      *)
(* update_balance, transfer, has_balance_gte, set_chain_id, begin_block.   *)
(*                                                                         *)
(* Strings are sequences of UTF-8 bytes.  A 256-bit digest is a record     *)
(* [zero, input]: H256::zero() or the personalised blake2b of `input`,     *)
(* taken as collision free.  The sparse Merkle tree is the map of its      *)
(* non-zero leaves, and its root is the commitment to that map.  u64 is    *)
(* scaled down to 0..MaxBalance with the same wrap-around / panic rules.   *)
(*                                                                         *)
(* SpecPure applies BlockHash::try_from and the Hash256 implementations    *)
(* to bounded inputs.  SpecVm is the guest ABI (vm_env/src/imports.rs):    *)
(* the wrappers a transaction and a validity predicate call, over the host *)
(* functions they import.                                                  *)
(***************************************************************************)
EXTENDS Integers, Sequences, FiniteSets, TLC

\* ------------------------------------------------------------------ bounds

\* The largest value of the (scaled-down) u64: balances and amounts are 0..MaxBalance.
MaxBalance == 2

\* Block heights passed to begin_block are 0..MaxHeight.
MaxHeight == 1

\* ------------------------------------------------------- program constants

CHAIN_ID_LENGTH == 20

BLOCK_HASH_LENGTH == 32

\* --------------------------------------------------------------- the state

VARIABLES
    chain_id,         \* Storage.chain_id
    block,            \* Storage.block: [tree, hash, height, balances]
    overflow_checks,  \* the build profile: TRUE panics on u64 overflow, FALSE wraps
    last,             \* the last call made on the Storage, with its arguments and result
    host,             \* the host side of the guest ABI: storage, write log, result buffer, iterators
    guest,            \* the guest side: the wrappers it holds and what its last call returned
    call              \* the last call of a pure function: [fn, input, output]

vars == <<chain_id, block, overflow_checks, last, host, guest, call>>

\* The variables of the guest ABI and of the pure functions, which the calls on
\* the Storage leave alone
others == <<host, guest, call>>

\* No pure function has been called
NoCall == [fn |-> "none", input |-> <<>>, output |-> <<>>]

\* ------------------------------------------------------------------ values

U64 == 0..MaxBalance

\* u64::to_le_bytes of the first n bytes
RECURSIVE to_le_bytes_n(_, _)
to_le_bytes_n(v, n) ==
    IF n = 0 THEN <<>> ELSE <<v % 256>> \o to_le_bytes_n(v \div 256, n - 1)

to_le_bytes(v) == to_le_bytes_n(v, 8)

H256_zero == [zero |-> TRUE, input |-> <<>>]

\* new_blake2b(): blake2b-256 personalised with "anoma storage", over `bytes`
new_blake2b(bytes) == [zero |-> FALSE, input |-> bytes]

\* impl Hash256 for String / &str (a string is its as_bytes())
hash256_String(s) ==
    IF Len(s) = 0 THEN H256_zero ELSE new_blake2b(s)

\* impl Hash256 for Balance
hash256_Balance(b) ==
    IF b = 0 THEN H256_zero ELSE new_blake2b(to_le_bytes(b))

\* impl Hash256 for BasicAddress
hash256_BasicAddress(addr) == hash256_String(addr.s)

\* impl Hash256 for ValidatorAddress
hash256_ValidatorAddress(addr) == hash256_String(addr.s)

\* impl Hash256 for Address
hash256_Address(addr) ==
    CASE addr.kind = "Basic" -> hash256_BasicAddress(addr)
      [] addr.kind = "Validator" -> hash256_ValidatorAddress(addr)

ValidatorAddress_new_address(s) == [kind |-> "Validator", s |-> s]

BasicAddress_new_address(s) == [kind |-> "Basic", s |-> s]

\* The addresses the calls are made with: the empty-string address, and a
\* Validator and a Basic address carrying the same string "a".
Addresses ==
    { ValidatorAddress_new_address(<<>>),
      ValidatorAddress_new_address(<<97>>),
      BasicAddress_new_address(<<97>>) }

BlockHash_default == [i \in 1..BLOCK_HASH_LENGTH |-> 0]

ChainIds == { <<>>, [i \in 1..(CHAIN_ID_LENGTH + 1) |-> 99] }

\* ------------------------------------------------------- the Merkle tree

\* MerkleTree::default(): no non-zero leaf
MerkleTree_default == <<>>

\* The leaf the tree holds at `key` (H256::zero() where it holds none)
Leaf(tree, key) == IF key \in DOMAIN tree THEN tree[key] ELSE H256_zero

\* SparseMerkleTree::update: a zero value removes the leaf
smt_update(tree, key, value) ==
    IF value = H256_zero
    THEN [k \in (DOMAIN tree) \ {key} |-> tree[k]]
    ELSE [k \in (DOMAIN tree) \cup {key} |-> IF k = key THEN value ELSE tree[k]]

\* SparseMerkleTree::root: the commitment to the non-zero leaves
smt_root(tree) == { <<k, tree[k]>> : k \in DOMAIN tree }

\* ------------------------------------------------------------- Storage

Storage == [chain_id |-> chain_id, block |-> block]

\* A variant of Default for Storage whose chain id is CHAIN_ID_LENGTH zero bytes
Storage_default_padded_chain_id ==
    [ chain_id |-> [i \in 1..CHAIN_ID_LENGTH |-> 0],
      block |-> [ tree |-> MerkleTree_default,
                  hash |-> BlockHash_default,
                  height |-> 0,
                  balances |-> <<>> ] ]

Storage_default ==
    [ chain_id |-> <<>>,
      block |-> [ tree |-> MerkleTree_default,
                  hash |-> BlockHash_default,
                  height |-> 0,
                  balances |-> <<>> ] ]

merkle_root(s) == smt_root(s.block.tree)

Ok == "Ok"

\* Mutant of has_balance_gte: the comparison is <= instead of <
has_balance_gte_strict(s, addr, amount) ==
    IF addr \notin DOMAIN s.block.balances
    THEN "Source not found"
    ELSE IF s.block.balances[addr] <= amount
         THEN "Source balance is too low"
         ELSE Ok

has_balance_gte(s, addr, amount) ==
    IF addr \notin DOMAIN s.block.balances
    THEN "Source not found"
    ELSE IF s.block.balances[addr] < amount
         THEN "Source balance is too low"
         ELSE Ok

\* tree_ok: whether the tree's update returns Ok; on Err the tree keeps its root
update_tree(s, key, value, tree_ok) ==
    IF tree_ok
    THEN [ s |-> [s EXCEPT !.block.tree = smt_update(@, key, value)],
           result |-> Ok ]
    ELSE [ s |-> s, result |-> "SMT error" ]

\* A variant of update_balance that replaces the map by the one entry
update_balance_only_entry(s, addr, balance, tree_ok) ==
    LET t == update_tree(s, hash256_Address(addr), hash256_Balance(balance), tree_ok) IN
    IF t.result # Ok
    THEN [ s |-> t.s, result |-> t.result ]
    ELSE [ s |-> [t.s EXCEPT !.block.balances = [a \in {addr} |-> balance]],
           result |-> Ok ]

\* Mutant of update_balance: the map entry is written before the tree update
update_balance_map_first(s, addr, balance, tree_ok) ==
    LET m == [s EXCEPT !.block.balances =
                [a \in (DOMAIN @) \cup {addr} |-> IF a = addr THEN balance ELSE @[a]]]
        t == update_tree(m, hash256_Address(addr), hash256_Balance(balance), tree_ok)
    IN  [ s |-> t.s, result |-> t.result ]

update_balance(s, addr, balance, tree_ok) ==
    LET key == hash256_Address(addr)
        value == hash256_Balance(balance)
        t == update_tree(s, key, value, tree_ok)
    IN  IF t.result # Ok
        THEN [ s |-> t.s, result |-> t.result ]
        ELSE [ s |-> [t.s EXCEPT !.block.balances =
                        [a \in (DOMAIN @) \cup {addr} |->
                            IF a = addr THEN balance ELSE @[a]]],
               result |-> Ok ]

\* dest_balance + amount in u64: a panic where the build checks overflow,
\* wrap-around where it does not
u64_add(a, b, checks) ==
    IF a + b <= MaxBalance
    THEN [panic |-> FALSE, value |-> a + b]
    ELSE IF checks
         THEN [panic |-> TRUE, value |-> 0]
         ELSE [panic |-> FALSE, value |-> (a + b) % (MaxBalance + 1)]

Panic == "panic: attempt to add with overflow"

\* The balance the map holds for an address, an absent one counting as 0
BalanceOf(s, addr) ==
    IF addr \in DOMAIN s.block.balances THEN s.block.balances[addr] ELSE 0

\* The debit and the credit of a transfer whose source holds src_balance >= amount.
\* oks[1], oks[2]: whether the tree update of the first, second update_balance
\* returns Ok.  calls: the update_balance calls made, in order.
transfer_debit_credit(s, src, src_balance, dest, amount, oks, checks) ==
    LET debit == [addr |-> src, balance |-> src_balance - amount]
        r1 == update_balance(s, src, debit.balance, oks[1])
    IN
    IF r1.result # Ok
    THEN [ s |-> r1.s, result |-> r1.result, calls |-> <<debit>> ]
    ELSE
    LET sum == IF dest \notin DOMAIN r1.s.block.balances
               THEN [panic |-> FALSE, value |-> amount]
               ELSE u64_add(r1.s.block.balances[dest], amount, checks)
    IN
    IF sum.panic
    THEN [ s |-> r1.s, result |-> Panic, calls |-> <<debit>> ]
    ELSE
    LET credit == [addr |-> dest, balance |-> sum.value]
        r2 == update_balance(r1.s, dest, credit.balance, oks[2])
    IN  [ s |-> r2.s, result |-> r2.result, calls |-> <<debit, credit>> ]

\* Mutant of transfer: a source with no entry counts as a balance of 0
transfer_absent_src_as_zero(s, src, dest, amount, oks, checks) ==
    IF BalanceOf(s, src) < amount
    THEN [ s |-> s, result |-> "Source balance is too low", calls |-> <<>> ]
    ELSE transfer_debit_credit(s, src, BalanceOf(s, src), dest, amount, oks, checks)

\* Mutant of transfer: no balance check, the debit saturating at 0
transfer_no_balance_check(s, src, dest, amount, oks, checks) ==
    IF src \notin DOMAIN s.block.balances
    THEN [ s |-> s, result |-> "Source not found", calls |-> <<>> ]
    ELSE transfer_debit_credit(s, src,
                               IF s.block.balances[src] < amount
                               THEN amount ELSE s.block.balances[src],
                               dest, amount, oks, checks)

transfer(s, src, dest, amount, oks, checks) ==
    IF src \notin DOMAIN s.block.balances
    THEN [ s |-> s, result |-> "Source not found", calls |-> <<>> ]
    ELSE IF s.block.balances[src] < amount
         THEN [ s |-> s, result |-> "Source balance is too low", calls |-> <<>> ]
         ELSE transfer_debit_credit(s, src, s.block.balances[src], dest, amount,
                                    oks, checks)

set_chain_id(s, id) == [ s |-> [s EXCEPT !.chain_id = id], result |-> Ok ]

\* Mutant of begin_block: the whole BlockStorage is replaced by a fresh one
begin_block_fresh_block(s, hash, height) ==
    [ s |-> [s EXCEPT !.block = [ tree |-> MerkleTree_default, hash |-> hash,
                                  height |-> height, balances |-> <<>> ]],
      result |-> Ok ]

begin_block(s, hash, height) ==
    [ s |-> [s EXCEPT !.block.hash = hash, !.block.height = height],
      result |-> Ok ]

\* ------------------------------------------------------------- actions

\* The outcomes of the (at most two) tree updates of one transfer: both Ok,
\* the second fails, the first fails.
TreeOutcomes == { <<TRUE, TRUE>>, <<TRUE, FALSE>>, <<FALSE, FALSE>> }

\* The blocks begin_block is called with: block h has height h and its own hash.
Blocks ==
    { [hash |-> [i \in 1..BLOCK_HASH_LENGTH |-> h], height |-> h] : h \in 0..MaxHeight }

Init ==
    /\ chain_id = Storage_default.chain_id
    /\ block = Storage_default.block
    /\ overflow_checks \in BOOLEAN
    /\ last = [op |-> "default", result |-> Ok]
    /\ host = <<>>
    /\ guest = <<>>
    /\ call = NoCall

\* A panic unwinds the caller: no further call is made on this Storage.
Running == last.result # Panic

HasBalanceGte ==
    \E addr \in Addresses, amount \in U64 :
        /\ Running
        /\ last' = [ op |-> "has_balance_gte",
                     result |-> has_balance_gte(Storage, addr, amount) ]
        /\ UNCHANGED <<chain_id, block, overflow_checks>>
        /\ UNCHANGED others

UpdateBalance ==
    \E addr \in Addresses, balance \in U64, tree_ok \in BOOLEAN :
        LET r == update_balance(Storage, addr, balance, tree_ok) IN
        /\ Running
        /\ chain_id' = r.s.chain_id
        /\ block' = r.s.block
        /\ last' = [op |-> "update_balance", result |-> r.result]
        /\ UNCHANGED overflow_checks
        /\ UNCHANGED others

Transfer ==
    \E src \in Addresses, dest \in Addresses, amount \in U64, oks \in TreeOutcomes :
        LET r == transfer(Storage, src, dest, amount, oks, overflow_checks) IN
        /\ Running
        /\ chain_id' = r.s.chain_id
        /\ block' = r.s.block
        /\ last' = [op |-> "transfer", result |-> r.result]
        /\ UNCHANGED overflow_checks
        /\ UNCHANGED others

SetChainId ==
    \E id \in ChainIds :
        LET r == set_chain_id(Storage, id) IN
        /\ Running
        /\ chain_id' = r.s.chain_id
        /\ block' = r.s.block
        /\ last' = [op |-> "set_chain_id", result |-> r.result]
        /\ UNCHANGED overflow_checks
        /\ UNCHANGED others

BeginBlock ==
    \E b \in Blocks :
        LET r == begin_block(Storage, b.hash, b.height) IN
        /\ Running
        /\ chain_id' = r.s.chain_id
        /\ block' = r.s.block
        /\ last' = [op |-> "begin_block", result |-> r.result]
        /\ UNCHANGED overflow_checks
        /\ UNCHANGED others

Next ==
    \/ HasBalanceGte
    \/ UpdateBalance
    \/ Transfer
    \/ SetChainId
    \/ BeginBlock

Spec == Init /\ [][Next]_vars

\* -------------------------------------------------------------- claims

NoTreeError == <<TRUE, TRUE>>

\* The root of the tree that holds, for every entry of the map, the leaf
\* hash256(address) -> hash256(balance), and nothing else
RootFromMap(balances) ==
    { <<hash256_Address(a), hash256_Balance(balances[a])>> :
        a \in { x \in DOMAIN balances : hash256_Balance(balances[x]) # H256_zero } }

\* C1: in every reachable state the balance map and the tree agree: the leaf at
\* hash256(address) is hash256(balance) for every entry of the map, and
\* merkle_root() is the root recomputed from the map alone.
C1_MapTreeAgree ==
    /\ \A a \in DOMAIN block.balances :
          Leaf(block.tree, hash256_Address(a)) = hash256_Balance(block.balances[a])
    /\ merkle_root(Storage) = RootFromMap(block.balances)

\* C2: a transfer whose source has no entry in the balance map returns
\* "Source not found" and leaves the root, the balance map, the block hash, the
\* height and the chain id as they were, for every dest and amount.
C2_TransferSourceNotFound ==
    \A src \in Addresses, dest \in Addresses, amount \in U64, oks \in TreeOutcomes :
        src \notin DOMAIN block.balances =>
            LET r == transfer(Storage, src, dest, amount, oks, overflow_checks) IN
            /\ r.result = "Source not found"
            /\ merkle_root(r.s) = merkle_root(Storage)
            /\ r.s = Storage

\* C2's case: a transfer has returned "Source not found" on a Storage that
\* holds balances.
C2_Witness ==
    /\ last = [op |-> "transfer", result |-> "Source not found"]
    /\ \E a \in DOMAIN block.balances : block.balances[a] > 0
    /\ Addresses \ DOMAIN block.balances # {}

\* C3: a transfer whose source holds less than amount returns "Source balance
\* is too low" and mutates nothing: the root and every entry of the balance map
\* (dest's absence included) are as before the call.
C3_TransferBalanceTooLow ==
    \A src \in DOMAIN block.balances, dest \in Addresses, amount \in U64,
       oks \in TreeOutcomes :
        block.balances[src] < amount =>
            LET r == transfer(Storage, src, dest, amount, oks, overflow_checks) IN
            /\ r.result = "Source balance is too low"
            /\ merkle_root(r.s) = merkle_root(Storage)
            /\ r.s.block.balances = block.balances
            /\ r.s = Storage

\* C3's case: a transfer has returned "Source balance is too low" while some
\* address is absent from the map.
C3_Witness ==
    /\ last = [op |-> "transfer", result |-> "Source balance is too low"]
    /\ \E a \in DOMAIN block.balances : block.balances[a] < MaxBalance
    /\ Addresses \ DOMAIN block.balances # {}

\* The balance map after a step differs from the one before it in exactly one
\* address, whose balance went down: a debit with no credit.
DebitWithoutCredit(before, after) ==
    \E a \in Addresses :
        /\ BalanceOf(after, a) < BalanceOf(before, a)
        /\ \A b \in Addresses \ {a} :
              /\ BalanceOf(after, b) = BalanceOf(before, b)
              /\ (b \in DOMAIN after.block.balances) = (b \in DOMAIN before.block.balances)

\* C4: whenever a transfer returns, with Ok or with an error, the state is never
\* one in which src was debited but dest was not credited.
C4_NoDebitWithoutCredit ==
    [][ (last'.op = "transfer" /\ last'.result # Panic) =>
            ~ DebitWithoutCredit(Storage, Storage') ]_vars

\* C5: for A # B, when transfer(A, B, amount) succeeds, transfer(B, A, amount)
\* made next succeeds too and restores A's balance, B's balance and the root.
C5_TransferRoundTrip ==
    \A A \in Addresses, B \in Addresses, amount \in U64 :
        LET r1 == transfer(Storage, A, B, amount, NoTreeError, overflow_checks) IN
        (A # B /\ r1.result = Ok) =>
            LET r2 == transfer(r1.s, B, A, amount, NoTreeError, overflow_checks) IN
            /\ r2.result = Ok
            /\ BalanceOf(r2.s, A) = BalanceOf(Storage, A)
            /\ BalanceOf(r2.s, B) = BalanceOf(Storage, B)
            /\ merkle_root(r2.s) = merkle_root(Storage)

\* C6: update_balance is atomic with respect to a tree failure: when the tree
\* update returns an error, update_balance returns it and the balance map and
\* the root are as before the call; when it returns Ok, the leaf and the map
\* entry of addr both hold the new balance.
C6_UpdateBalanceAtomic ==
    \A addr \in Addresses, balance \in U64, tree_ok \in BOOLEAN :
        LET t == update_tree(Storage, hash256_Address(addr),
                             hash256_Balance(balance), tree_ok)
            r == update_balance(Storage, addr, balance, tree_ok)
        IN  /\ t.result # Ok =>
                  /\ r.result = t.result
                  /\ r.s.block.balances = block.balances
                  /\ merkle_root(r.s) = merkle_root(Storage)
            /\ t.result = Ok =>
                  /\ r.result = Ok
                  /\ Leaf(r.s.block.tree, hash256_Address(addr)) = hash256_Balance(balance)
                  /\ addr \in DOMAIN r.s.block.balances
                  /\ r.s.block.balances[addr] = balance

\* C6's case: an update_balance has returned the tree's error on a Storage
\* that holds a non-zero balance.
C6_Witness ==
    /\ last = [op |-> "update_balance", result |-> "SMT error"]
    /\ \E a \in DOMAIN block.balances : block.balances[a] > 0

\* The result has_balance_gte must give, read off the balance map alone
ExpectedBalanceCheck(balances, addr, amount) ==
    CASE addr \notin DOMAIN balances -> "Source not found"
      [] addr \in DOMAIN balances /\ balances[addr] < amount -> "Source balance is too low"
      [] addr \in DOMAIN balances /\ balances[addr] >= amount -> Ok

\* C7: has_balance_gte changes no state, and its result is decided by the
\* balance map alone: not found iff addr has no entry, too low iff the entry is
\* below amount, Ok iff the entry is at least amount.
C7_HasBalanceGte ==
    /\ [](\A addr \in Addresses, amount \in U64 :
            has_balance_gte(Storage, addr, amount)
                = ExpectedBalanceCheck(block.balances, addr, amount))
    /\ [][ last'.op = "has_balance_gte" => UNCHANGED <<chain_id, block>> ]_vars

\* C7's case: has_balance_gte has returned Ok while the map holds an entry
\* with balance 0 and lacks another address.
C7_Witness ==
    /\ last = [op |-> "has_balance_gte", result |-> Ok]
    /\ \E a \in DOMAIN block.balances : block.balances[a] = 0
    /\ Addresses \ DOMAIN block.balances # {}

\* C8: set_chain_id changes nothing but the chain id, and begin_block nothing
\* but the block hash and the height: the root and the balance map are the
\* same before and after either call.
C8_HeaderCallsKeepTree ==
    [][ /\ last'.op = "set_chain_id" =>
              /\ block' = block
              /\ merkle_root(Storage') = merkle_root(Storage)
        /\ last'.op = "begin_block" =>
              /\ chain_id' = chain_id
              /\ block'.tree = block.tree
              /\ block'.balances = block.balances
              /\ merkle_root(Storage') = merkle_root(Storage) ]_vars

\* C8's case: begin_block has been called on a Storage with a non-empty tree
\* and a chain id set.
C8_Witness ==
    /\ last.op = "begin_block"
    /\ block.height > 0
    /\ chain_id # <<>>
    /\ block.tree # <<>>
    /\ \E a \in DOMAIN block.balances : block.balances[a] > 0

\* C9: a self-transfer transfer(A, A, amount) with balance(A) >= amount
\* succeeds, makes the debit update then the credit update of A (the credit
\* computed from the debited balance), and ends with A's balance and the root as
\* before the call.
C9_SelfTransfer ==
    \A A \in DOMAIN block.balances, amount \in U64 :
        block.balances[A] >= amount =>
            LET r == transfer(Storage, A, A, amount, NoTreeError, overflow_checks) IN
            /\ r.result = Ok
            /\ r.calls = << [addr |-> A, balance |-> block.balances[A] - amount],
                            [addr |-> A, balance |-> block.balances[A]] >>
            /\ r.s.block.balances[A] = block.balances[A]
            /\ merkle_root(r.s) = merkle_root(Storage)

\* C10: transfer(src, dest, 0) succeeds whenever src has a map entry and makes
\* both update_balance calls: the balances of src and dest are numerically
\* unchanged, a dest that was absent gains an entry with balance 0, and the root
\* is unchanged.
C10_ZeroTransfer ==
    \A src \in DOMAIN block.balances, dest \in Addresses :
        LET r == transfer(Storage, src, dest, 0, NoTreeError, overflow_checks) IN
        /\ r.result = Ok
        /\ Len(r.calls) = 2
        /\ r.calls[1].addr = src /\ r.calls[2].addr = dest
        /\ BalanceOf(r.s, src) = BalanceOf(Storage, src)
        /\ BalanceOf(r.s, dest) = BalanceOf(Storage, dest)
        /\ dest \in DOMAIN r.s.block.balances
        /\ merkle_root(r.s) = merkle_root(Storage)

\* C21: the chain id held by Storage is at most CHAIN_ID_LENGTH (20) bytes long
\* in every reachable state, whatever strings are passed to set_chain_id.
C21_ChainIdBounded ==
    Len(chain_id) <= 20

\* C22: the default Storage is empty: its root is the root of the empty tree,
\* the balance map has no entry (has_balance_gte and transfer report "Source
\* not found" for every address), the height is 0, the block hash is 32 zero
\* bytes and the chain id is the empty string.
C22_DefaultStorageEmpty ==
    last.op = "default" =>
        /\ merkle_root(Storage) = {}
        /\ block.tree = <<>>
        /\ DOMAIN block.balances = {}
        /\ \A addr \in Addresses, amount \in U64 :
              /\ has_balance_gte(Storage, addr, amount) = "Source not found"
              /\ \A dest \in Addresses, oks \in TreeOutcomes :
                    transfer(Storage, addr, dest, amount, oks, overflow_checks).result
                        = "Source not found"
        /\ block.height = 0
        /\ Len(block.hash) = 32
        /\ \A i \in 1..32 : block.hash[i] = 0
        /\ chain_id = <<>>

\* The Storage as Default::default() made it, before any call
C22_Witness ==
    /\ last.op = "default"
    /\ DOMAIN block.balances = {}
    /\ block.height = 0

\* C25: distinct addresses never share a tree leaf: two different Address
\* values have different tree keys, so in every reachable state the leaf at
\* hash256(a) is the hash of the balance the map holds for a.
C25_DistinctAddressesDistinctLeaves ==
    /\ \A a \in DOMAIN block.balances :
          Leaf(block.tree, hash256_Address(a)) = hash256_Balance(block.balances[a])
    /\ \A a, b \in DOMAIN block.balances :
          a # b => hash256_Address(a) # hash256_Address(b)

\* C26: every transfer(src, dest, amount) with src # dest that returns Ok
\* lowers src's balance by exactly amount and raises dest's balance (0 if
\* absent) by exactly amount, without wrap-around: dest never ends with a
\* lower balance than before.
C26_TransferNoWrapAround ==
    \A src \in Addresses, dest \in Addresses, amount \in U64 :
        LET r == transfer(Storage, src, dest, amount, NoTreeError, overflow_checks) IN
        (src # dest /\ r.result = Ok) =>
            /\ BalanceOf(r.s, src) = BalanceOf(Storage, src) - amount
            /\ BalanceOf(r.s, dest) = BalanceOf(Storage, dest) + amount
            /\ BalanceOf(r.s, dest) >= BalanceOf(Storage, dest)

\* The sum of the balances of a map
RECURSIVE SumOver(_, _)
SumOver(balances, addrs) ==
    IF addrs = {} THEN 0
    ELSE LET a == CHOOSE x \in addrs : TRUE IN
         balances[a] + SumOver(balances, addrs \ {a})

TotalBalance(balances) == SumOver(balances, DOMAIN balances)

\* C27: balance conservation: the sum of all balances in the map is the same
\* before and after every transfer call, successful or failed.
C27_BalanceConservation ==
    [][last'.op = "transfer" =>
          TotalBalance(block'.balances) = TotalBalance(block.balances)]_vars

\* Whether two maps agree on every address outside `touched`
SameEntriesExcept(before, after, touched) ==
    \A a \in Addresses \ touched :
        /\ (a \in DOMAIN after) = (a \in DOMAIN before)
        /\ a \in DOMAIN before => after[a] = before[a]

\* Whether two Storages have the same block hash, height and chain id
SameHeader(before, after) ==
    /\ after.block.hash = before.block.hash
    /\ after.block.height = before.block.height
    /\ after.chain_id = before.chain_id

\* C28: update_balance(addr, b) changes no map entry other than addr's, and
\* transfer(src, dest, amount) none other than src's and dest's; neither
\* changes the block hash, the height or the chain id.
C28_BalanceWritesFrame ==
    /\ \A addr \in Addresses, b \in U64, tree_ok \in BOOLEAN :
          LET r == update_balance(Storage, addr, b, tree_ok) IN
          /\ SameEntriesExcept(block.balances, r.s.block.balances, {addr})
          /\ SameHeader(Storage, r.s)
    /\ \A src \in Addresses, dest \in Addresses, amount \in U64, oks \in TreeOutcomes :
          LET r == transfer(Storage, src, dest, amount, oks, overflow_checks) IN
          /\ SameEntriesExcept(block.balances, r.s.block.balances, {src, dest})
          /\ SameHeader(Storage, r.s)

\* A transfer has succeeded on a map that holds a third address, in a block
\* whose hash, height and chain id are not the default ones
C28_Witness ==
    /\ last.op = "transfer"
    /\ last.result = Ok
    /\ Cardinality(DOMAIN block.balances) = 3
    /\ block.height # 0
    /\ chain_id # <<>>

\* ===================================================== the pure functions
\* BlockHash::try_from and the Hash256 implementations of u64, Balance and
\* &str, each applied to inputs drawn from bounded sets.

\* The u64 and Balance inputs of hash256 are 0..MaxHashInput.
MaxHashInput == 6

\* The byte slices given to BlockHash::try_from start at a byte 0..MaxByteSeed.
MaxByteSeed == 19

\* impl Hash256 for u64: the value's little-endian bytes are always hashed
hash256_u64(v) == new_blake2b(to_le_bytes(v))

\* impl Hash256 for &str
hash256_str(s) ==
    IF Len(s) = 0 THEN H256_zero ELSE new_blake2b(s)

\* A variant of BlockHash::try_from that takes the first 32 bytes of a longer slice
BlockHash_try_from_prefix(value) ==
    IF Len(value) < BLOCK_HASH_LENGTH
    THEN [ ok |-> FALSE, err |-> <<Len(value), BLOCK_HASH_LENGTH>> ]
    ELSE [ ok |-> TRUE, hash |-> [i \in 1..BLOCK_HASH_LENGTH |-> value[i]] ]

\* impl TryFrom<&[u8]> for BlockHash: the error carries the two numbers of
\* its message; hash.copy_from_slice(value) copies byte by byte
BlockHash_try_from(value) ==
    IF Len(value) # BLOCK_HASH_LENGTH
    THEN [ ok |-> FALSE, err |-> <<Len(value), BLOCK_HASH_LENGTH>> ]
    ELSE [ ok |-> TRUE, hash |-> [i \in 1..BLOCK_HASH_LENGTH |-> value[i]] ]

\* The slice of `len` bytes first, first + step, first + 2 step, ...
Slice(len, first, step) == [i \in 1..len |-> (first + (i - 1) * step) % 256]

Slices ==
    { Slice(len, first, step) :
        len \in {0, BLOCK_HASH_LENGTH - 1, BLOCK_HASH_LENGTH, BLOCK_HASH_LENGTH + 1},
        first \in 0..MaxByteSeed, step \in {0, 1} }

\* "", "a", "ab"
Strs == { <<>>, <<97>>, <<97, 98>> }

PureInit ==
    /\ chain_id = Storage_default.chain_id
    /\ block = Storage_default.block
    /\ overflow_checks = FALSE
    /\ last = [op |-> "default", result |-> Ok]
    /\ host = <<>>
    /\ guest = <<>>
    /\ call = NoCall

BlockHashTryFrom ==
    \E value \in Slices :
        /\ call' = [fn |-> "BlockHash::try_from", input |-> value,
                    output |-> BlockHash_try_from(value)]
        /\ UNCHANGED <<chain_id, block, overflow_checks, last, host, guest>>

Hash256U64 ==
    \E v \in 0..MaxHashInput :
        /\ call' = [fn |-> "u64::hash256", input |-> v, output |-> hash256_u64(v)]
        /\ UNCHANGED <<chain_id, block, overflow_checks, last, host, guest>>

Hash256Balance ==
    \E v \in 0..MaxHashInput :
        /\ call' = [fn |-> "Balance::hash256", input |-> v, output |-> hash256_Balance(v)]
        /\ UNCHANGED <<chain_id, block, overflow_checks, last, host, guest>>

Hash256Str ==
    \E s \in Strs :
        /\ call' = [fn |-> "str::hash256", input |-> s, output |-> hash256_str(s)]
        /\ UNCHANGED <<chain_id, block, overflow_checks, last, host, guest>>

PureNext ==
    \/ BlockHashTryFrom
    \/ Hash256U64
    \/ Hash256Balance
    \/ Hash256Str

SpecPure == PureInit /\ [][PureNext]_vars

\* ============================================================ the guest ABI
\* The host functions a transaction (tx) or a validity predicate (vp) imports,
\* and the wrappers of vm_env/src/imports.rs the guest calls them through.
\* The host keeps the committed storage, the transaction's write log, a
\* single-slot result buffer and the open prefix iterators.

\* A transaction changes at most MaxWrites keys.
MaxWrites == 1

\* A guest invocation opens at most MaxIters prefix iterators.
MaxIters == 1

None == <<>>

Some(x) == <<x>>

\* The storage keys "a1", "a2", "b1", in the order the store iterates them
KeyOrder == << <<97, 49>>, <<97, 50>>, <<98, 49>> >>

VmKeys == { KeyOrder[i] : i \in 1..Len(KeyOrder) }

\* The prefixes "a" and "b"
Prefixes == { <<97>>, <<98>> }

\* The bytes a guest writes: the borsh encodings of () and of 0x0708u16
Values == { <<>>, <<8, 7>> }

HasPrefix(key, prefix) ==
    /\ Len(prefix) <= Len(key)
    /\ SubSeq(key, 1, Len(prefix)) = prefix

\* The committed storage at the start of the transaction
CommittedStores ==
    { [k \in VmKeys |-> IF k = KeyOrder[1] THEN <<1, 0>>
                        ELSE IF k = KeyOrder[2] THEN <<2, 0>> ELSE <<>>],
      [k \in {KeyOrder[1], KeyOrder[3]} |-> IF k = KeyOrder[1] THEN <<1, 0>> ELSE <<3, 0>>] }

\* -------------------------------------------------------- the host functions

\* What a view holds at `key`: "pre" is the committed storage, "post" (and the
\* transaction's own view, "tx") lays the write log over it
view_get(h, view, key) ==
    IF view # "pre" /\ key \in DOMAIN h.write_log
    THEN IF h.write_log[key].del THEN None ELSE Some(h.write_log[key].val)
    ELSE IF key \in DOMAIN h.storage THEN Some(h.storage[key]) ELSE None

\* anoma_tx_read / anoma_vp_read_pre / anoma_vp_read_post: the probe
host_read(h, view, key) ==
    LET v == view_get(h, view, key) IN
    IF v = None
    THEN [ h |-> h, ret |-> -1 ]
    ELSE [ h |-> [h EXCEPT !.result_buffer = v], ret |-> Len(v[1]) ]

\* anoma_tx_result_buffer / anoma_vp_result_buffer: the bytes copied to the
\* guest's memory; the buffer is discarded
host_result_buffer(h) ==
    [ h |-> [h EXCEPT !.result_buffer = None],
      bytes |-> IF h.result_buffer = None THEN <<>> ELSE h.result_buffer[1] ]

\* anoma_tx_has_key / anoma_vp_has_key_pre / anoma_vp_has_key_post
host_has_key(h, view, key) ==
    IF view_get(h, view, key) = None THEN -1 ELSE 1

\* anoma_tx_write
host_write(h, key, val) ==
    [h EXCEPT !.write_log = [k \in DOMAIN @ \cup {key} |->
                               IF k = key THEN [del |-> FALSE, val |-> val] ELSE @[k]]]

\* anoma_tx_delete
host_delete(h, key) ==
    [h EXCEPT !.write_log = [k \in DOMAIN @ \cup {key} |->
                               IF k = key THEN [del |-> TRUE, val |-> <<>>] ELSE @[k]]]

\* anoma_tx_iter_prefix / anoma_vp_iter_prefix: a cursor over the committed
\* keys with the prefix; its id is its index among the iterators opened so far
host_iter_prefix(h, prefix) ==
    [ h |-> [h EXCEPT !.iterators = Append(@,
                [ prefix |-> prefix,
                  rest |-> SelectSeq(KeyOrder,
                              LAMBDA k : k \in DOMAIN h.storage /\ HasPrefix(k, prefix)) ])],
      id |-> Len(h.iterators) ]

\* borsh of KeyVal { key: String, val: Vec<u8> }: each field as its length in
\* four little-endian bytes followed by its bytes
KeyVal_try_to_vec(key, val) ==
    to_le_bytes_n(Len(key), 4) \o key \o to_le_bytes_n(Len(val), 4) \o val

\* The index in `rest` of the first key the view holds a value for, 0 if none
RECURSIVE first_present(_, _, _, _)
first_present(h, view, rest, i) ==
    IF i > Len(rest) THEN 0
    ELSE IF view_get(h, view, rest[i]) # None THEN i
    ELSE first_present(h, view, rest, i + 1)

\* anoma_tx_iter_next / anoma_vp_iter_pre_next / anoma_vp_iter_post_next:
\* advance the cursor to its next key that the view holds (a key the write log
\* deletes is passed over), put the encoded pair in the result buffer and
\* return its size; -1 at the end
host_iter_next(h, view, id) ==
    LET it == h.iterators[id + 1]
        i == first_present(h, view, it.rest, 1)
    IN  IF i = 0
        THEN [ h |-> [h EXCEPT !.iterators[id + 1].rest = <<>>], ret |-> -1 ]
        ELSE LET bytes == KeyVal_try_to_vec(it.rest[i], view_get(h, view, it.rest[i])[1]) IN
             [ h |-> [h EXCEPT !.iterators[id + 1].rest = SubSeq(it.rest, i + 1, Len(it.rest)),
                               !.result_buffer = Some(bytes)],
               ret |-> Len(bytes) ]

\* How a run of the evaluated predicate can end
EvalOutcomes == { "accept", "reject", "trap", "out of gas" }

\* anoma_vp_eval: the success marker if the predicate accepted, else failure
host_eval(outcome) == IF outcome = "accept" THEN 1 ELSE -1

\* ------------------------------------------------------ the guest's wrappers

\* HostEnvResult: a negative value is absence / failure, a non-negative one a
\* size or the success marker
HostEnvResult_is_fail(int) == int < 0

HostEnvResult_is_success(int) == int >= 0

RECURSIVE from_le_bytes(_)
from_le_bytes(bytes) ==
    IF bytes = <<>> THEN 0 ELSE Head(bytes) + 256 * from_le_bytes(Tail(bytes))

\* borsh KeyVal::try_from_slice: both fields, and no byte left over
KeyVal_try_from_slice(bytes) ==
    IF Len(bytes) < 4 THEN None
    ELSE LET klen == from_le_bytes(SubSeq(bytes, 1, 4)) IN
         IF Len(bytes) < 8 + klen THEN None
         ELSE LET vlen == from_le_bytes(SubSeq(bytes, 5 + klen, 8 + klen)) IN
              IF Len(bytes) # 8 + klen + vlen THEN None
              ELSE Some([ key |-> SubSeq(bytes, 5, 4 + klen),
                          val |-> SubSeq(bytes, 9 + klen, 8 + klen + vlen) ])

\* T::try_from_slice: the guest reads values as T = u16, two little-endian bytes
\* and no byte left over; "KeyVal" is the pair an iterator delivers
try_from_slice(T, bytes) ==
    IF T = "KeyVal" THEN KeyVal_try_from_slice(bytes)
    ELSE IF Len(bytes) = 2 THEN Some(from_le_bytes(bytes)) ELSE None

\* A variant of read_from_buffer that calls result_buffer whatever the probe returned
read_from_buffer_always_materialize(h, read_result, T) ==
    LET rb == host_result_buffer(h) IN
    IF HostEnvResult_is_fail(read_result)
    THEN [ h |-> rb.h, value |-> None, calls |-> <<"result_buffer">> ]
    ELSE [ h |-> rb.h, value |-> try_from_slice(T, SubSeq(rb.bytes, 1, read_result)),
           calls |-> <<"result_buffer">> ]

\* A variant of read_from_buffer whose Vec is one byte shorter than the value
read_from_buffer_one_byte_short(h, read_result, T) ==
    IF HostEnvResult_is_fail(read_result)
    THEN [ h |-> h, value |-> None, calls |-> <<>> ]
    ELSE LET rb == host_result_buffer(h)
             target == SubSeq(rb.bytes, 1, read_result - 1)
         IN  [ h |-> rb.h, value |-> try_from_slice(T, target),
               calls |-> <<"result_buffer">> ]

\* A variant of read_from_buffer that takes undecodable bytes for the value 0
read_from_buffer_default(h, read_result, T) ==
    IF HostEnvResult_is_fail(read_result)
    THEN [ h |-> h, value |-> None, calls |-> <<>> ]
    ELSE LET rb == host_result_buffer(h)
             d == try_from_slice(T, SubSeq(rb.bytes, 1, read_result))
         IN  [ h |-> rb.h, value |-> IF d = None THEN Some(0) ELSE d,
               calls |-> <<"result_buffer">> ]

\* read_from_buffer: None on the sentinel; else a Vec of read_result bytes is
\* filled by result_buffer and decoded, a decoding error giving None
read_from_buffer(h, read_result, T) ==
    IF HostEnvResult_is_fail(read_result)
    THEN [ h |-> h, value |-> None, calls |-> <<>> ]
    ELSE LET rb == host_result_buffer(h)
             target == SubSeq(rb.bytes, 1, read_result)
         IN  [ h |-> rb.h, value |-> try_from_slice(T, target),
               calls |-> <<"result_buffer">> ]

\* read_key_val_from_buffer: the pair is decoded, then its value as T
read_key_val_from_buffer(h, read_result) ==
    LET key_val == read_from_buffer(h, read_result, "KeyVal") IN
    IF key_val.value = None
    THEN [ h |-> key_val.h, value |-> None, calls |-> key_val.calls ]
    ELSE LET val == try_from_slice("u16", key_val.value[1].val) IN
         [ h |-> key_val.h,
           value |-> IF val = None THEN None
                     ELSE Some(<<key_val.value[1].key, val[1]>>),
           calls |-> key_val.calls ]

\* tx::read
tx_read(h, key) ==
    LET p == host_read(h, "tx", key) IN read_from_buffer(p.h, p.ret, "u16")

\* tx::has_key
tx_has_key(h, key) == HostEnvResult_is_success(host_has_key(h, "tx", key))

\* A variant of KeyValIterator::next that advances through the committed view
KeyValIterator_next_committed(h, id) ==
    LET n == host_iter_next(h, "pre", id) IN read_key_val_from_buffer(n.h, n.ret)

\* <KeyValIterator as Iterator>::next
KeyValIterator_next(h, id) ==
    LET n == host_iter_next(h, "tx", id) IN read_key_val_from_buffer(n.h, n.ret)

\* A variant of vp::read_pre that probes the post view
read_pre_through_post(h, key) ==
    LET p == host_read(h, "post", key) IN read_from_buffer(p.h, p.ret, "u16")

\* vp::read_pre
read_pre(h, key) ==
    LET p == host_read(h, "pre", key) IN read_from_buffer(p.h, p.ret, "u16")

\* vp::read_post
read_post(h, key) ==
    LET p == host_read(h, "post", key) IN read_from_buffer(p.h, p.ret, "u16")

\* vp::has_key_pre
has_key_pre(h, key) == HostEnvResult_is_success(host_has_key(h, "pre", key))

\* vp::has_key_post
has_key_post(h, key) == HostEnvResult_is_success(host_has_key(h, "post", key))

\* <PreKeyValIterator as Iterator>::next
PreKeyValIterator_next(h, id) ==
    LET n == host_iter_next(h, "pre", id) IN read_key_val_from_buffer(n.h, n.ret)

\* <PostKeyValIterator as Iterator>::next
PostKeyValIterator_next(h, id) ==
    LET n == host_iter_next(h, "post", id) IN read_key_val_from_buffer(n.h, n.ret)

\* A variant of vp::eval that takes every outcome but a rejection for acceptance
eval_unless_rejected(outcome) == outcome # "reject"

\* vp::eval
eval(outcome) == HostEnvResult_is_success(host_eval(outcome))

\* ------------------------------------------------- the guest's invocations
\* A transaction runs (role "tx"), then the validity predicates it triggers
\* (role "vp") with the transaction's write log as their post view.  guest.op,
\* guest.probe and guest.ret are the last wrapper called, what its host call
\* returned and what the wrapper returned; guest.opened and guest.yielded
\* record, per iterator id, the view it was opened for and the keys its next
\* has yielded.

VmInit ==
    /\ chain_id = Storage_default.chain_id
    /\ block = Storage_default.block
    /\ overflow_checks = FALSE
    /\ last = [op |-> "default", result |-> Ok]
    /\ call = NoCall
    /\ \E storage \in CommittedStores :
          host = [ role |-> "tx", storage |-> storage, write_log |-> <<>>,
                   result_buffer |-> None, iterators |-> <<>> ]
    /\ guest = [ op |-> "start", probe |-> 0, ret |-> None, id |-> 0,
                 opened |-> <<>>, yielded |-> <<>>, calls |-> <<>> ]

\* The guest's record of a call that is not an iterator's next
Returned(op, probe, ret, calls) ==
    [guest EXCEPT !.op = op, !.probe = probe, !.ret = ret, !.id = 0, !.calls = calls]

\* The guest's record of a call of next on iterator `id`
Yielded(op, id, probe, ret, calls) ==
    [guest EXCEPT !.op = op, !.probe = probe, !.ret = ret, !.id = id, !.calls = calls,
                  !.yielded[id + 1] = IF ret = None THEN @ ELSE Append(@, ret[1][1])]

\* The guest's record of opening iterator `id` for `view`
Opened(op, view, id, calls) ==
    [guest EXCEPT !.op = op, !.probe = id, !.ret = Some(id), !.id = id, !.calls = calls,
                  !.opened = Append(@, view), !.yielded = Append(@, <<>>)]

Frame == UNCHANGED <<chain_id, block, overflow_checks, last, call>>

IterIds == 0..(Len(host.iterators) - 1)

TxRead ==
    \E key \in VmKeys :
        /\ host.role = "tx"
        /\ host' = tx_read(host, key).h
        /\ guest' = Returned("tx::read", host_read(host, "tx", key).ret,
                             tx_read(host, key).value,
                             <<"anoma_tx_read">> \o tx_read(host, key).calls)
        /\ Frame

TxHasKey ==
    \E key \in VmKeys :
        /\ host.role = "tx"
        /\ host' = host
        /\ guest' = Returned("tx::has_key", host_has_key(host, "tx", key),
                             tx_has_key(host, key), <<"anoma_tx_has_key">>)
        /\ Frame

TxWrite ==
    \E key \in VmKeys, val \in Values :
        /\ host.role = "tx"
        /\ key \in DOMAIN host.write_log \/ Cardinality(DOMAIN host.write_log) < MaxWrites
        /\ host' = host_write(host, key, val)
        /\ guest' = Returned("tx::write", 0, None, <<"anoma_tx_write">>)
        /\ Frame

TxDelete ==
    \E key \in VmKeys :
        /\ host.role = "tx"
        /\ key \in DOMAIN host.write_log \/ Cardinality(DOMAIN host.write_log) < MaxWrites
        /\ host' = host_delete(host, key)
        /\ guest' = Returned("tx::delete", 0, None, <<"anoma_tx_delete">>)
        /\ Frame

TxIterPrefix ==
    \E prefix \in Prefixes :
        /\ host.role = "tx"
        /\ Len(host.iterators) < MaxIters
        /\ host' = host_iter_prefix(host, prefix).h
        /\ guest' = Opened("tx::iter_prefix", "tx", host_iter_prefix(host, prefix).id,
                           <<"anoma_tx_iter_prefix">>)
        /\ Frame

TxIterNext(id) ==
    /\ host.role = "tx"
    /\ id \in IterIds
    /\ host' = KeyValIterator_next(host, id).h
    /\ guest' = Yielded("KeyValIterator::next", id, host_iter_next(host, "tx", id).ret,
                        KeyValIterator_next(host, id).value,
                        <<"anoma_tx_iter_next">> \o KeyValIterator_next(host, id).calls)
    /\ Frame

\* The transaction ends; its validity predicates run against the storage and
\* the write log, with a result buffer and iterators of their own
TxFinish ==
    /\ host.role = "tx"
    /\ host' = [host EXCEPT !.role = "vp", !.result_buffer = None, !.iterators = <<>>]
    /\ guest' = [ op |-> "start", probe |-> 0, ret |-> None, id |-> 0,
                  opened |-> <<>>, yielded |-> <<>>, calls |-> <<>> ]
    /\ Frame

VpReadPre ==
    \E key \in VmKeys :
        /\ host.role = "vp"
        /\ host' = read_pre(host, key).h
        /\ guest' = Returned("vp::read_pre", host_read(host, "pre", key).ret,
                             read_pre(host, key).value,
                             <<"anoma_vp_read_pre">> \o read_pre(host, key).calls)
        /\ Frame

VpReadPost ==
    \E key \in VmKeys :
        /\ host.role = "vp"
        /\ host' = read_post(host, key).h
        /\ guest' = Returned("vp::read_post", host_read(host, "post", key).ret,
                             read_post(host, key).value,
                             <<"anoma_vp_read_post">> \o read_post(host, key).calls)
        /\ Frame

VpHasKeyPre ==
    \E key \in VmKeys :
        /\ host.role = "vp"
        /\ host' = host
        /\ guest' = Returned("vp::has_key_pre", host_has_key(host, "pre", key),
                             has_key_pre(host, key), <<"anoma_vp_has_key_pre">>)
        /\ Frame

VpHasKeyPost ==
    \E key \in VmKeys :
        /\ host.role = "vp"
        /\ host' = host
        /\ guest' = Returned("vp::has_key_post", host_has_key(host, "post", key),
                             has_key_post(host, key), <<"anoma_vp_has_key_post">>)
        /\ Frame

\* vp::iter_prefix_pre
VpIterPrefixPre ==
    \E prefix \in Prefixes :
        /\ host.role = "vp"
        /\ Len(host.iterators) < MaxIters
        /\ host' = host_iter_prefix(host, prefix).h
        /\ guest' = Opened("vp::iter_prefix_pre", "pre", host_iter_prefix(host, prefix).id,
                           <<"anoma_vp_iter_prefix">>)
        /\ Frame

\* vp::iter_prefix_post
VpIterPrefixPost ==
    \E prefix \in Prefixes :
        /\ host.role = "vp"
        /\ Len(host.iterators) < MaxIters
        /\ host' = host_iter_prefix(host, prefix).h
        /\ guest' = Opened("vp::iter_prefix_post", "post", host_iter_prefix(host, prefix).id,
                           <<"anoma_vp_iter_prefix">>)
        /\ Frame

\* next on PreKeyValIterator(id, PhantomData): the struct's fields are public,
\* so the guest can build it around the id of any iterator it has opened
VpIterPreNext(id) ==
    /\ host.role = "vp"
    /\ id \in IterIds
    /\ host' = PreKeyValIterator_next(host, id).h
    /\ guest' = Yielded("PreKeyValIterator::next", id, host_iter_next(host, "pre", id).ret,
                        PreKeyValIterator_next(host, id).value,
                        <<"anoma_vp_iter_pre_next">> \o PreKeyValIterator_next(host, id).calls)
    /\ Frame

\* next on PostKeyValIterator(id, PhantomData), likewise
VpIterPostNext(id) ==
    /\ host.role = "vp"
    /\ id \in IterIds
    /\ host' = PostKeyValIterator_next(host, id).h
    /\ guest' = Yielded("PostKeyValIterator::next", id, host_iter_next(host, "post", id).ret,
                        PostKeyValIterator_next(host, id).value,
                        <<"anoma_vp_iter_post_next">> \o PostKeyValIterator_next(host, id).calls)
    /\ Frame

VpEval ==
    \E outcome \in EvalOutcomes :
        /\ host.role = "vp"
        /\ host' = host
        /\ guest' = Returned("vp::eval", host_eval(outcome), eval(outcome), <<"anoma_vp_eval">>)
        /\ Frame

VmNext ==
    \/ TxRead
    \/ TxHasKey
    \/ TxWrite
    \/ TxDelete
    \/ TxIterPrefix
    \/ \E id \in 0..(MaxIters - 1) : TxIterNext(id)
    \/ TxFinish
    \/ VpReadPre
    \/ VpReadPost
    \/ VpHasKeyPre
    \/ VpHasKeyPost
    \/ VpIterPrefixPre
    \/ VpIterPrefixPost
    \/ \E id \in 0..(MaxIters - 1) : VpIterPreNext(id)
    \/ \E id \in 0..(MaxIters - 1) : VpIterPostNext(id)
    \/ VpEval

SpecVm == VmInit /\ [][VmNext]_vars

\* ------------------------------------------------- claims on the guest ABI

\* The views the current role reads through
Views == IF host.role = "tx" THEN {"tx"} ELSE {"pre", "post"}

\* What the write log laid over the committed storage holds at `key`
Overlaid(key) ==
    IF key \in DOMAIN host.write_log
    THEN IF host.write_log[key].del THEN None ELSE Some(host.write_log[key].val)
    ELSE IF key \in DOMAIN host.storage THEN Some(host.storage[key]) ELSE None

\* What the committed storage holds at `key`
Committed(key) ==
    IF key \in DOMAIN host.storage THEN Some(host.storage[key]) ELSE None

\* What `view` is to hold at `key`
Held(view, key) == IF view = "pre" THEN Committed(key) ELSE Overlaid(key)

\* The decoding of an optional value as the guest's type
Decoded(bytes) ==
    IF bytes = None THEN None ELSE try_from_slice("u16", bytes[1])

\* C11: the probe (anoma_tx_read, anoma_vp_read_pre, anoma_vp_read_post)
\* returns n >= 0 for a key whose value has n bytes, n = 0 included, and the
\* sentinel -1 for an absent key; the result_buffer call that follows a probe
\* of a present key delivers exactly the n bytes that were written.
C11_TwoStepRead ==
    /\ \A view \in Views, key \in VmKeys :
          LET p == host_read(host, view, key) IN
          IF Held(view, key) = None
          THEN p.ret = -1
          ELSE /\ p.ret = Len(Held(view, key)[1])
               /\ p.ret >= 0
               /\ host_result_buffer(p.h).bytes = Held(view, key)[1]
               /\ Len(host_result_buffer(p.h).bytes) = p.ret
    /\ \A key \in VmKeys :
          IF host.role = "tx"
          THEN tx_read(host, key).value = Decoded(Held("tx", key))
          ELSE /\ read_pre(host, key).value = Decoded(Held("pre", key))
               /\ read_post(host, key).value = Decoded(Held("post", key))
    /\ guest.op \in {"tx::read", "vp::read_pre", "vp::read_post"} =>
          /\ guest.probe >= -1
          /\ host.result_buffer = None

\* A read has probed a key that is present with an empty value: the probe
\* returned 0, not the sentinel
C11_Witness ==
    /\ guest.op \in {"tx::read", "vp::read_pre", "vp::read_post"}
    /\ guest.probe = 0

\* C12: for a validity predicate, after the transaction wrote K = V (or
\* deleted K), read_post(K) is V (resp. absence) and has_key_post agrees, while
\* read_pre(K) and has_key_pre(K) give the committed value (absence if K is
\* new); a key the transaction did not write reads the same in both views.
C12_PostViewReadAfterWrite ==
    host.role = "vp" =>
        \A K \in VmKeys :
            /\ read_pre(host, K).value = Decoded(Committed(K))
            /\ has_key_pre(host, K) = (K \in DOMAIN host.storage)
            /\ host_read(host, "pre", K).ret =
                   (IF K \in DOMAIN host.storage THEN Len(host.storage[K]) ELSE -1)
            /\ IF K \in DOMAIN host.write_log
               THEN IF host.write_log[K].del
                    THEN /\ read_post(host, K).value = None
                         /\ host_read(host, "post", K).ret = -1
                         /\ ~has_key_post(host, K)
                    ELSE /\ read_post(host, K).value = Decoded(Some(host.write_log[K].val))
                         /\ host_read(host, "post", K).ret = Len(host.write_log[K].val)
                         /\ host_result_buffer(host_read(host, "post", K).h).bytes
                               = host.write_log[K].val
                         /\ has_key_post(host, K)
               ELSE /\ read_post(host, K).value = read_pre(host, K).value
                    /\ host_read(host, "post", K).ret = host_read(host, "pre", K).ret
                    /\ has_key_post(host, K) = has_key_pre(host, K)

\* A validity predicate has read, in the post view, the value 0x0708 that only
\* the transaction wrote, at a key whose committed value is another or none
C12_Witness ==
    /\ host.role = "vp"
    /\ guest.op = "vp::read_post"
    /\ guest.ret = Some(1800)
    /\ \E K \in DOMAIN host.write_log :
          /\ ~host.write_log[K].del
          /\ host.write_log[K].val = <<8, 7>>
          /\ read_pre(host, K).value # Some(1800)

\* C14: the pre and post views use separate iterator ids: an iterator opened by
\* iter_prefix_pre is only ever advanced by the pre view's next, and one opened
\* by iter_prefix_post only by the post view's next.
C14_SeparateIteratorIds ==
    /\ guest.op = "PreKeyValIterator::next" => guest.opened[guest.id + 1] = "pre"
    /\ guest.op = "PostKeyValIterator::next" => guest.opened[guest.id + 1] = "post"

\* The view an iterator's next reads through, from the wrapper that was called
NextView ==
    IF guest.op = "KeyValIterator::next" THEN "tx"
    ELSE IF guest.op = "PreKeyValIterator::next" THEN "pre" ELSE "post"

\* The keys of a sequence
Range(seq) == { seq[i] : i \in 1..Len(seq) }

\* C13: repeatedly calling next on the iterator returned by iter_prefix(P)
\* yields each key with prefix P once and no other key, and returns None only
\* after the last of them: when next returns None, every committed key with
\* prefix P (that the view has not deleted) has been yielded.
C13_PrefixIteration ==
    /\ \A id \in IterIds :
          /\ \A i, j \in 1..Len(guest.yielded[id + 1]) :
                i # j => guest.yielded[id + 1][i] # guest.yielded[id + 1][j]
          /\ \A k \in Range(guest.yielded[id + 1]) :
                k \in DOMAIN host.storage /\ HasPrefix(k, host.iterators[id + 1].prefix)
    /\ ( /\ guest.op \in {"KeyValIterator::next", "PreKeyValIterator::next",
                          "PostKeyValIterator::next"}
         /\ guest.ret = None )
       => \A k \in DOMAIN host.storage :
             ( /\ HasPrefix(k, host.iterators[guest.id + 1].prefix)
               /\ Held(NextView, k) # None )
             => k \in Range(guest.yielded[guest.id + 1])

\* C15: prefix iteration inside a transaction surfaces only keys committed
\* before the transaction: a key first created by a write of the transaction is
\* never yielded, and a committed key the transaction has overwritten is
\* yielded with the written value.
C15_TxIterationCommittedKeysOnly ==
    host.role = "tx" =>
        \A id \in IterIds :
            /\ Range(guest.yielded[id + 1]) \subseteq DOMAIN host.storage
            /\ Range(host.iterators[id + 1].rest) \subseteq DOMAIN host.storage
            /\ LET n == host_iter_next(host, "tx", id)
                   pair == try_from_slice("KeyVal", host_result_buffer(n.h).bytes)
                   r == KeyValIterator_next(host, id).value
               IN  /\ n.ret >= 0 =>
                        /\ pair # None
                        /\ pair[1].key \in DOMAIN host.storage
                        /\ pair[1].val =
                             (IF pair[1].key \in DOMAIN host.write_log
                              THEN host.write_log[pair[1].key].val
                              ELSE host.storage[pair[1].key])
                   /\ r # None =>
                        /\ r[1][1] \in DOMAIN host.storage
                        /\ Some(r[1][2]) = Decoded(Overlaid(r[1][1]))

\* A transaction has created a key with the prefix of an iterator it then ran
\* to the end, and the key was not yielded
C15_Witness ==
    /\ host.role = "tx"
    /\ guest.op = "KeyValIterator::next"
    /\ guest.probe = -1
    /\ \E k \in DOMAIN host.write_log :
          /\ k \notin DOMAIN host.storage
          /\ ~host.write_log[k].del
          /\ Decoded(Some(host.write_log[k].val)) # None
          /\ HasPrefix(k, host.iterators[guest.id + 1].prefix)
          /\ guest.yielded[guest.id + 1] # <<>>
          /\ k \notin Range(guest.yielded[guest.id + 1])

\* The probes of the two channels, and the wrappers that make them
Probes ==
    { "anoma_tx_read", "anoma_tx_iter_next", "anoma_vp_read_pre", "anoma_vp_read_post",
      "anoma_vp_iter_pre_next", "anoma_vp_iter_post_next" }

ProbingWrappers ==
    { "tx::read", "KeyValIterator::next", "vp::read_pre", "vp::read_post",
      "PreKeyValIterator::next", "PostKeyValIterator::next" }

\* C24: in every sequence of calls of the guest wrappers of one channel, a
\* probe that returns a size is followed by exactly one result_buffer call
\* before any further probe, and a probe that returns the sentinel by none:
\* each wrapper makes its probe and then one result_buffer call or none, and
\* leaves no probed value pending in the host's buffer.
C24_GuestProtocolCompliance ==
    /\ host.result_buffer = None
    /\ guest.op \in ProbingWrappers =>
          /\ guest.calls[1] \in Probes
          /\ IF guest.probe >= 0
             THEN guest.calls = <<guest.calls[1], "result_buffer">>
             ELSE guest.calls = <<guest.calls[1]>>
    /\ guest.op \notin ProbingWrappers =>
          \A i \in 1..Len(guest.calls) :
              guest.calls[i] \notin Probes \cup {"result_buffer"}
    /\ \A view \in Views, key \in VmKeys :
          LET p == host_read(host, view, key)
              r == read_from_buffer(p.h, p.ret, "u16")
          IN  /\ r.calls = IF p.ret >= 0 THEN <<"result_buffer">> ELSE <<>>
              /\ r.h.result_buffer = None

\* A wrapper has probed a present key and materialized it, after a wrapper
\* whose probe had returned the sentinel
C24_Witness ==
    /\ guest.op \in ProbingWrappers
    /\ guest.probe >= 0
    /\ guest.calls = <<guest.calls[1], "result_buffer">>
    /\ \E key \in VmKeys, view \in Views : host_read(host, view, key).ret = -1

\* C29: a guest prefix iterator returns None from next only when the host
\* signalled the end of the iteration with the sentinel.
C29_NoneOnlyAtEnd ==
    ( /\ guest.op \in {"KeyValIterator::next", "PreKeyValIterator::next",
                        "PostKeyValIterator::next"}
      /\ guest.ret = None )
    => guest.probe = -1

\* C16: read, read_pre and read_post return None both when the probe returns
\* the sentinel and when the delivered bytes do not decode as T; they return
\* Some(v) only when the key is present and its bytes decode to v.
C16_DecodeFailureIsAbsence ==
    /\ \A view \in Views, key \in VmKeys :
          LET p == host_read(host, view, key)
              r == read_from_buffer(p.h, p.ret, "u16").value
              wrapper == IF view = "tx" THEN tx_read(host, key).value
                         ELSE IF view = "pre" THEN read_pre(host, key).value
                         ELSE read_post(host, key).value
          IN  /\ wrapper = r
              /\ p.ret = -1 => r = None
              /\ p.ret >= 0 /\ Decoded(Held(view, key)) = None => r = None
              /\ r # None => /\ p.ret >= 0
                             /\ Held(view, key) # None
                             /\ r = Some(from_le_bytes(Held(view, key)[1]))
                             /\ Len(Held(view, key)[1]) = 2
    /\ guest.op \in {"tx::read", "vp::read_pre", "vp::read_post"} =>
          (guest.probe < 0 => guest.ret = None)

\* A read has found its key present (the probe returned a size) and returned
\* None because the bytes do not decode
C16_Witness ==
    /\ guest.op \in {"tx::read", "vp::read_pre", "vp::read_post"}
    /\ guest.probe >= 0
    /\ guest.ret = None

\* C17: eval returns true only when the evaluated predicate ran to completion
\* and accepted; a rejection and every failure give false, and there is no
\* third outcome.
C17_EvalAcceptOrFalse ==
    /\ \A outcome \in EvalOutcomes :
          /\ eval(outcome) \in BOOLEAN
          /\ eval(outcome) = (outcome = "accept")
    /\ guest.op = "vp::eval" =>
          /\ guest.ret \in BOOLEAN
          /\ guest.ret = (guest.probe = 1)

\* eval has returned false for a predicate that did not accept
C17_Witness ==
    /\ guest.op = "vp::eval"
    /\ guest.probe = -1
    /\ guest.ret = FALSE

\* C18: BlockHash::try_from(bytes) is an error for every slice whose length is
\* not 32, and for a slice of 32 bytes it is Ok with a hash holding the same 32
\* bytes in the same order.
C18_BlockHashTryFrom ==
    call.fn = "BlockHash::try_from" =>
        IF Len(call.input) = 32
        THEN /\ call.output.ok
             /\ Len(call.output.hash) = 32
             /\ \A i \in 1..32 : call.output.hash[i] = call.input[i]
        ELSE ~call.output.ok

\* try_from has accepted a slice of 32 bytes that are not all the same
C18_Witness ==
    /\ call.fn = "BlockHash::try_from"
    /\ Len(call.input) = 32
    /\ call.input[1] # call.input[2]
    /\ call.output.ok

\* C19: hash256(0u64), hash256(Balance(0)) and hash256("") are all the zero
\* digest; every non-zero integer and non-empty string is hashed with the
\* personalised hash over its little-endian / UTF-8 bytes; and hash256(5u64)
\* differs from hash256(6u64).
C19_ZeroHashesToZero ==
    /\ call.fn \in {"u64::hash256", "Balance::hash256"} =>
           call.output = IF call.input = 0 THEN H256_zero
                         ELSE new_blake2b(to_le_bytes(call.input))
    /\ call.fn = "str::hash256" =>
           call.output = IF call.input = <<>> THEN H256_zero
                         ELSE new_blake2b(call.input)
    /\ hash256_u64(5) # hash256_u64(6)

\* C20: the block height is monotonic: no call makes the stored height smaller
\* than it was.
C20_HeightMonotonic ==
    [][block'.height >= block.height]_vars

\* ============================================================== signatures
\* shared/src/types/key/ed25519.rs: sign, verify_signature,
\* verify_signature_raw, sign_tx, verify_tx_sig.  ed25519 is taken as ideal: a
\* signature is the pair of its signer and the signed bytes, and verifies under
\* a public key exactly for that signer and those bytes.

\* keypair_1 and keypair_2
Keypairs == { 1, 2 }

\* The public key of a keypair
PublicKey_of(keypair) == [pk |-> keypair]

PublicKeys == { PublicKey_of(k) : k \in Keypairs }

\* Keypair::sign
sign(keypair, data) == [signer |-> keypair, msg |-> data]

\* PublicKey::verify_strict
verify_strict(pk, bytes, sig) ==
    sig.signer = pk.pk /\ sig.msg = bytes

\* The values given to verify_signature: two u16 and a value of a type whose
\* BorshSerialize returns an io::Error
SignedValues == { [kind |-> "u16", v |-> 1], [kind |-> "u16", v |-> 258],
                  [kind |-> "unencodable", v |-> 0] }

\* data.try_to_vec()
try_to_vec(data) ==
    IF data.kind = "u16"
    THEN [ ok |-> TRUE, bytes |-> to_le_bytes_n(data.v, 2) ]
    ELSE [ ok |-> FALSE, bytes |-> <<>> ]

\* A variant of verify_signature that reports an encoding failure as SigError
verify_signature_one_error(pk, data, sig) ==
    IF ~try_to_vec(data).ok THEN "SigError"
    ELSE IF verify_strict(pk, try_to_vec(data).bytes, sig) THEN Ok ELSE "SigError"

verify_signature(pk, data, sig) ==
    LET bytes == try_to_vec(data) IN
    IF ~bytes.ok THEN "EncodingError"
    ELSE IF verify_strict(pk, bytes.bytes, sig) THEN Ok ELSE "SigError"

verify_signature_raw(pk, data, sig) ==
    IF verify_strict(pk, data, sig) THEN Ok ELSE "SigError"

\* The signatures given to the verifications: each keypair's over each message
Messages == { <<1, 0>>, <<2, 1>>, <<>> }

Signatures == { sign(k, m) : k \in Keypairs, m \in Messages }

\* The transactions: code, optional data, timestamp
Txs ==
    [ code : { <<1>>, <<2>> }, data : { None, Some(<<>>), Some(<<5>>) },
      timestamp : { 0, 1 } ]

\* borsh of Option<Vec<u8>>: 0, or 1 and the length-prefixed bytes
Option_try_to_vec(opt) ==
    IF opt = None THEN <<0>>
    ELSE <<1>> \o to_le_bytes_n(Len(opt[1]), 4) \o opt[1]

\* Tx::to_bytes: the length-prefixed code, the optional data, the timestamp
Tx_to_bytes(tx) ==
    to_le_bytes_n(Len(tx.code), 4) \o tx.code \o Option_try_to_vec(tx.data)
        \o <<tx.timestamp>>

\* Signature::to_bytes: the ideal signature as bytes, signer first
Signature_to_bytes(sig) == <<sig.signer>> \o sig.msg

\* Signature::new(bytes)
Signature_new(bytes) == [signer |-> bytes[1], msg |-> Tail(bytes)]

\* borsh of SignedTxData { data, sig }: the optional data, then the signature
\* bytes as a length-prefixed Vec<u8>
SignedTxData_try_to_vec(signed) ==
    Option_try_to_vec(signed.data)
        \o to_le_bytes_n(Len(Signature_to_bytes(signed.sig)), 4)
        \o Signature_to_bytes(signed.sig)

\* SignedTxData::try_from_slice: None where the bytes are not an encoding
SignedTxData_try_from_slice(bytes) ==
    IF Len(bytes) < 1 \/ bytes[1] \notin {0, 1} THEN None
    ELSE
    LET dlen == IF bytes[1] = 0 THEN 0 ELSE 4 + from_le_bytes(SubSeq(bytes, 2, 5))
        data == IF bytes[1] = 0 THEN None ELSE Some(SubSeq(bytes, 6, 1 + dlen))
    IN
    IF (bytes[1] = 1 /\ Len(bytes) < 5) \/ Len(bytes) < 1 + dlen + 4 THEN None
    ELSE
    LET slen == from_le_bytes(SubSeq(bytes, 2 + dlen, 5 + dlen)) IN
    IF slen < 1 \/ Len(bytes) # 5 + dlen + slen THEN None
    ELSE Some([ data |-> data,
                sig |-> Signature_new(SubSeq(bytes, 6 + dlen, 5 + dlen + slen)) ])

sign_tx(keypair, tx) ==
    LET to_sign == Tx_to_bytes(tx)
        sig == sign(keypair, to_sign)
        signed == SignedTxData_try_to_vec([data |-> tx.data, sig |-> sig])
    IN  [ code |-> tx.code, data |-> Some(signed), timestamp |-> tx.timestamp ]

\* verify_tx_sig: each expect() panics on None / Err
verify_tx_sig(pk, tx, sig) ==
    IF tx.data = None THEN "panic: signed data should exist"
    ELSE
    LET signed_tx_data == SignedTxData_try_from_slice(tx.data[1]) IN
    IF signed_tx_data = None THEN "panic: Decoding transaction data shouldn't fail"
    ELSE IF signed_tx_data[1].data = None THEN "panic: data should exist"
    ELSE verify_signature_raw(pk,
             Tx_to_bytes([tx EXCEPT !.data = Some(signed_tx_data[1].data[1])]), sig)

SigInit ==
    /\ chain_id = Storage_default.chain_id
    /\ block = Storage_default.block
    /\ overflow_checks = FALSE
    /\ last = [op |-> "default", result |-> Ok]
    /\ host = <<>>
    /\ guest = <<>>
    /\ call = NoCall

SigFrame == UNCHANGED <<chain_id, block, overflow_checks, last, host, guest>>

VerifySignature ==
    \E pk \in PublicKeys, data \in SignedValues, sig \in Signatures :
        /\ call' = [fn |-> "verify_signature",
                    input |-> [pk |-> pk, data |-> data, sig |-> sig],
                    output |-> verify_signature(pk, data, sig)]
        /\ SigFrame

VerifySignatureRaw ==
    \E pk \in PublicKeys, data \in Messages, sig \in Signatures :
        /\ call' = [fn |-> "verify_signature_raw",
                    input |-> [pk |-> pk, data |-> data, sig |-> sig],
                    output |-> verify_signature_raw(pk, data, sig)]
        /\ SigFrame

\* signed = sign_tx(keypair, tx), then verify_tx_sig(pk, signed, sig) with the
\* signature decoded from signed.data
SignTxVerifyTxSig ==
    \E keypair \in Keypairs, tx \in Txs, pk \in PublicKeys :
        LET signed == sign_tx(keypair, tx)
            sig == SignedTxData_try_from_slice(signed.data[1])[1].sig
        IN  /\ call' = [fn |-> "verify_tx_sig",
                        input |-> [keypair |-> keypair, tx |-> tx, pk |-> pk],
                        output |-> verify_tx_sig(pk, signed, sig)]
            /\ SigFrame

SigNext ==
    \/ VerifySignature
    \/ VerifySignatureRaw
    \/ SignTxVerifyTxSig

SpecSig == SigInit /\ [][SigNext]_vars

\* C23: verify_signature returns EncodingError exactly when the payload cannot
\* be encoded, SigError exactly when it encodes but the signature does not
\* match the public key over the encoded bytes, and Ok exactly when the encoded
\* payload verifies; verify_signature_raw never returns EncodingError.
C23_SignatureErrors ==
    /\ call.fn = "verify_signature" =>
          LET encodes == call.input.data.kind = "u16"
              matches == /\ encodes
                         /\ call.input.sig.signer = call.input.pk.pk
                         /\ from_le_bytes(call.input.sig.msg) = call.input.data.v
                         /\ Len(call.input.sig.msg) = 2
          IN  /\ call.output \in {Ok, "SigError", "EncodingError"}
              /\ (call.output = "EncodingError") = ~encodes
              /\ (call.output = "SigError") = (encodes /\ ~matches)
              /\ (call.output = Ok) = matches
    /\ call.fn = "verify_signature_raw" =>
          /\ call.output \in {Ok, "SigError"}
          /\ (call.output = Ok) =
                (call.input.sig = sign(call.input.pk.pk, call.input.data))

\* verify_signature has returned EncodingError for a payload that cannot be
\* encoded, given a signature of the public key's own keypair
C23_Witness ==
    /\ call.fn = "verify_signature"
    /\ call.input.data.kind = "unencodable"
    /\ call.input.sig.signer = call.input.pk.pk
    /\ call.output = "EncodingError"

\* C30: for every keypair and every Tx, with data or without, signed =
\* sign_tx(keypair, tx) and the signature embedded in signed's data make
\* verify_tx_sig return Ok for the keypair's public key, without aborting, and
\* an error for the public key of another keypair.
C30_SignTxRoundTrip ==
    call.fn = "verify_tx_sig" =>
        IF call.input.pk = PublicKey_of(call.input.keypair)
        THEN call.output = Ok
        ELSE call.output \in {"SigError", "EncodingError"}

====
